---- MODULE Spec2Model ----
(***************************************************************************)
(* A model of the left-leaning red-black tree of src/src/tree.rs.          *)
(*                                                                         *)
(* The Rc<RefCell<Node<T>>> handles of the source are modelled as an       *)
(* arena: `heap` maps a node identity to the node's fields, and a link     *)
(* (TreeNode<T> = Option<Rc<..>>) is a node identity or Nil.  A handle     *)
(* that the code keeps in a local variable is an identity here, so a read  *)
(* through a handle taken before a rotation sees the node's fields as they *)
(* are at the time of the read, exactly as a read through the Rc does.     *)
(* T is instantiated with the integers 1..MaxVal.                          *)
(***************************************************************************)
EXTENDS Integers, Sequences, FiniteSets, TLC

MaxVal == 6
     \* values are drawn from 1..MaxVal
MaxCalls == 7
     \* insert calls made between two clears
MaxBulk == 2
     \* length of the sequence handed to insert_all
MaxBulkVal == 2
     \* the sequences handed to insert_all are over 1..MaxBulkVal
MaxOrd == 11
     \* values of the descending runs are drawn from 1..MaxOrd

Values == 1..MaxVal

Nil == 0
     \* Option::None of a TreeNode<T>

Red == "Red"
Black == "Black"

VARIABLES
    heap,      \* the allocated nodes: identity -> [value, left, right, color]
    root,      \* RedBlackTree.root
    size,      \* RedBlackTree.size
    status,    \* "live", "consumed" (moved into a Vec), "panicked"
    last,      \* the call that produced this state, with its argument and result
    inserted,  \* history: the set of values handed to insert since new/clear
    calls      \* history: the number of insert calls since new/clear

vars == <<heap, root, size, status, last, inserted, calls>>

EmptyHeap == [n \in {} |-> Nil]

(***************************************************************************)
(* Node                                                                    *)
(***************************************************************************)
with_color(val, color) == [value |-> val, left |-> Nil, right |-> Nil, color |-> color]

flip_color(n) == [n EXCEPT !.color = IF n.color = Red THEN Black ELSE Red]

node_is_red(n) == n.color = Red

\* is_red that takes a missing node for a red one
is_red_none_red(h, node) == IF node # Nil THEN node_is_red(h[node]) ELSE TRUE

\* the free function is_red: a missing node is not red
is_red(h, node) == IF node # Nil THEN node_is_red(h[node]) ELSE FALSE

\* Rc::new: a node is named after the value it is created with; were that
\* name taken (two nodes holding one value) it gets the next unused name.
NewId(h, val) ==
    IF val \notin DOMAIN h THEN val
    ELSE 1 + (CHOOSE m \in DOMAIN h : \A n \in DOMAIN h : n <= m)

(***************************************************************************)
(* A step of insert returns the heap, the head of the subtree and whether  *)
(* the step ran to completion (ok = FALSE: an unwrap of None or a RefCell  *)
(* borrow that is refused, both panics).                                   *)
(***************************************************************************)
Res(h, head, ok) == [h |-> h, head |-> head, ok |-> ok]

\* rotate_left that hands node the wrong subtree of its right child, which
\* then hangs under both nodes
rotate_left_share(h, node, held) ==
    IF node = Nil \/ node \in held THEN Res(h, Nil, FALSE)
    ELSE LET right == h[node].right IN
         IF right = Nil \/ right = node \/ right \in held THEN Res(h, Nil, FALSE)
         ELSE LET h1 == [h EXCEPT ![node].right = h[right].right]
                  h2 == [h1 EXCEPT ![right].left = node]
                  h3 == [h2 EXCEPT ![right].color = h2[node].color]
                  h4 == [h3 EXCEPT ![node].color = Red]
              IN Res(h4, right, TRUE)

\* rotate_left written with the links of rotate_right
rotate_left_mirror(h, node, held) ==
    IF node = Nil \/ node \in held THEN Res(h, Nil, FALSE)
    ELSE LET right == h[node].right IN
         IF right = Nil \/ right = node \/ right \in held THEN Res(h, Nil, FALSE)
         ELSE LET h1 == [h EXCEPT ![node].right = h[right].right]
                  h2 == [h1 EXCEPT ![right].right = node]
                  h3 == [h2 EXCEPT ![right].color = h2[node].color]
                  h4 == [h3 EXCEPT ![node].color = Red]
              IN Res(h4, right, TRUE)

rotate_left(h, node, held) ==
    IF node = Nil \/ node \in held THEN Res(h, Nil, FALSE)
    ELSE LET right == h[node].right IN
         IF right = Nil \/ right = node \/ right \in held THEN Res(h, Nil, FALSE)
         ELSE LET h1 == [h EXCEPT ![node].right = h[right].left]
                  h2 == [h1 EXCEPT ![right].left = node]
                  h3 == [h2 EXCEPT ![right].color = h2[node].color]
                  h4 == [h3 EXCEPT ![node].color = Red]
              IN Res(h4, right, TRUE)

\* rotate_right that leaves node the color it had
rotate_right_keep_color(h, node, held) ==
    IF node = Nil \/ node \in held THEN Res(h, Nil, FALSE)
    ELSE LET left == h[node].left IN
         IF left = Nil \/ left = node \/ left \in held THEN Res(h, Nil, FALSE)
         ELSE LET h1 == [h EXCEPT ![node].left = h[left].right]
                  h2 == [h1 EXCEPT ![left].right = node]
                  h3 == [h2 EXCEPT ![left].color = h2[node].color]
              IN Res(h3, left, TRUE)

\* rotate_right that forgets to hand the left child's right subtree to node
rotate_right_drop(h, node, held) ==
    IF node = Nil \/ node \in held THEN Res(h, Nil, FALSE)
    ELSE LET left == h[node].left IN
         IF left = Nil \/ left = node \/ left \in held THEN Res(h, Nil, FALSE)
         ELSE LET h1 == [h EXCEPT ![node].left = Nil]
                  h2 == [h1 EXCEPT ![left].right = node]
                  h3 == [h2 EXCEPT ![left].color = h2[node].color]
                  h4 == [h3 EXCEPT ![node].color = Red]
              IN Res(h4, left, TRUE)

rotate_right(h, node, held) ==
    IF node = Nil \/ node \in held THEN Res(h, Nil, FALSE)
    ELSE LET left == h[node].left IN
         IF left = Nil \/ left = node \/ left \in held THEN Res(h, Nil, FALSE)
         ELSE LET h1 == [h EXCEPT ![node].left = h[left].right]
                  h2 == [h1 EXCEPT ![left].right = node]
                  h3 == [h2 EXCEPT ![left].color = h2[node].color]
                  h4 == [h3 EXCEPT ![node].color = Red]
              IN Res(h4, left, TRUE)

\* a RefCell can be borrowed unless a caller up the recursion holds its
\* borrow_mut (line 61 keeps cmp_node borrowed across the recursive call)
Readable(n, held) == n = Nil \/ n \notin held

\* the tests of lines 73, 78-85 and 91, on the handles left and right
rotates_left(h, left, right) == is_red(h, right) /\ ~is_red(h, left)

rotates_right(h, left) == is_red(h, left) /\ is_red(h, h[left].left)

flips(h, left, right) == is_red(h, left) /\ is_red(h, right)

\* step 1, lines 73-77
repair_step1(h, cnode, left, right, held) ==
    IF ~(Readable(right, held) /\ Readable(left, held)) THEN Res(h, cnode, FALSE)
    ELSE IF rotates_left(h, left, right) THEN rotate_left(h, cnode, held)
    ELSE Res(h, cnode, TRUE)

\* step 2, lines 78-90
repair_step2(r1, left, held) ==
    IF ~r1.ok THEN r1
    ELSE IF is_red(r1.h, left) /\ left = Nil
         THEN Res(r1.h, r1.head, FALSE)      \* the expect of line 81
    ELSE IF ~(is_red(r1.h, left) => Readable(r1.h[left].left, held))
         THEN Res(r1.h, r1.head, FALSE)
    ELSE IF rotates_right(r1.h, left) THEN rotate_right(r1.h, r1.head, held)
    ELSE r1

\* step 3, lines 91-95: flip_color on cnode, then on left, then on right
repair_step3(r2, left, right, held) ==
    LET f1 == [r2.h EXCEPT ![r2.head] = flip_color(@)]
        f2 == [f1 EXCEPT ![left] = flip_color(@)]
        f3 == [f2 EXCEPT ![right] = flip_color(@)]
    IN IF ~r2.ok THEN r2
       ELSE IF ~(Readable(left, held) /\ Readable(right, held))
            THEN Res(r2.h, r2.head, FALSE)
       ELSE IF flips(r2.h, left, right) THEN Res(f3, r2.head, r2.head \notin held)
       ELSE r2

\* lines 70-96: the repair pass at cnode.  left and right are the handles
\* read at lines 70-71, before any rotation, and all three tests use them;
\* each test reads the color and the links its handle has at that moment.
repair(h, cnode, held) ==
    LET left == h[cnode].left
        right == h[cnode].right
        r1 == repair_step1(h, cnode, left, right, held)
        r2 == repair_step2(r1, left, held)
    IN repair_step3(r2, left, right, held)

\* lines 63-69: where insert_help goes from a node holding `value`
descend_dup(val, value) == IF val < value THEN "left" ELSE "right"

descend(val, value) ==
    IF val < value THEN "left"
    ELSE IF val > value THEN "right"
    ELSE "replace"

RECURSIVE insert_help(_, _, _, _)
insert_help(h, node, val, held) ==
    IF node # Nil THEN
        IF node \in held THEN Res(h, Nil, FALSE)
        ELSE
        LET value == h[node].value
            way == descend(val, value)
            sub == IF way = "left" THEN insert_help(h, h[node].left, val, held \cup {node})
                   ELSE IF way = "right" THEN insert_help(h, h[node].right, val, held \cup {node})
                   ELSE Res([h EXCEPT ![node].value = val], node, TRUE)
            h1 == IF way = "left" THEN [sub.h EXCEPT ![node].left = sub.head]
                  ELSE IF way = "right" THEN [sub.h EXCEPT ![node].right = sub.head]
                  ELSE sub.h
        IN IF ~sub.ok THEN Res(sub.h, Nil, FALSE)
           ELSE repair(h1, node, held)
    ELSE
        LET id == NewId(h, val)
        IN Res([n \in DOMAIN h \cup {id} |->
                   IF n = id THEN with_color(val, Red) ELSE h[n]], id, TRUE)

(***************************************************************************)
(* RedBlackTree: a tree value is [heap, root, size, ok]                    *)
(***************************************************************************)
Tree(h, r, s, ok) == [heap |-> h, root |-> r, size |-> s, ok |-> ok]

new == Tree(EmptyHeap, Nil, 0, TRUE)

\* insert that leaves the root the color the repair pass gave it
insert_keep_color(t, val) ==
    LET r == insert_help(t.heap, t.root, val, {}) IN
    IF ~r.ok \/ r.head = Nil THEN Tree(r.h, t.root, t.size, FALSE)
    ELSE Tree(r.h, r.head, t.size + 1, TRUE)

\* insert that counts a call only when it created a node
insert_count_new(t, val) ==
    LET r == insert_help(t.heap, t.root, val, {}) IN
    IF ~r.ok \/ r.head = Nil THEN Tree(r.h, t.root, t.size, FALSE)
    ELSE Tree([r.h EXCEPT ![r.head].color = Black], r.head,
              IF DOMAIN r.h = DOMAIN t.heap THEN t.size ELSE t.size + 1, TRUE)

insert(t, val) ==
    LET r == insert_help(t.heap, t.root, val, {}) IN
    IF ~r.ok \/ r.head = Nil THEN Tree(r.h, t.root, t.size, FALSE)
    ELSE Tree([r.h EXCEPT ![r.head].color = Black], r.head, t.size + 1, TRUE)

\* contains that turns the wrong way at each node
RECURSIVE contains_swapped(_, _, _)
contains_swapped(h, cmp, val) ==
    IF cmp = Nil THEN FALSE
    ELSE LET value == h[cmp].value IN
         IF value < val THEN contains_swapped(h, h[cmp].left, val)
         ELSE IF value > val THEN contains_swapped(h, h[cmp].right, val)
         ELSE TRUE

RECURSIVE contains(_, _, _)
contains(h, cmp, val) ==
    IF cmp = Nil THEN FALSE
    ELSE LET value == h[cmp].value IN
         IF value < val THEN contains(h, h[cmp].right, val)
         ELSE IF value > val THEN contains(h, h[cmp].left, val)
         ELSE TRUE

\* clear that drops the root and keeps the count
clear_keep_size(t) == Tree(EmptyHeap, Nil, t.size, TRUE)

\* clear that resets the count and keeps the root
clear_keep_root(t) == Tree(t.heap, t.root, 0, TRUE)

clear(t) == Tree(EmptyHeap, Nil, 0, TRUE)

\* insert_all that walks the sequence from its end
RECURSIVE insert_all_reversed(_, _)
insert_all_reversed(t, vals) ==
    IF vals = <<>> \/ ~t.ok THEN t
    ELSE insert_all_reversed(insert(t, vals[Len(vals)]), SubSeq(vals, 1, Len(vals) - 1))

RECURSIVE insert_all(_, _)
insert_all(t, vals) ==
    IF vals = <<>> \/ ~t.ok THEN t
    ELSE insert_all(insert(t, Head(vals)), Tail(vals))

len(t) == t.size

RECURSIVE from_recursive(_, _, _)
from_recursive(h, node, res) ==
    IF node # Nil THEN
        LET a == from_recursive(h, h[node].left, res)
            b == Append(a, h[node].value)
        IN from_recursive(h, h[node].right, b)
    ELSE res

from(t) == from_recursive(t.heap, t.root, <<>>)

(***************************************************************************)
(* The state machine: one action per public operation                      *)
(***************************************************************************)
Cur == Tree(heap, root, size, TRUE)

Store(t) ==
    /\ heap' = t.heap
    /\ root' = t.root
    /\ size' = t.size
    /\ status' = IF t.ok THEN "live" ELSE "panicked"

Init ==
    /\ heap = new.heap
    /\ root = new.root
    /\ size = new.size
    /\ status = "live"
    /\ last = [op |-> "new"]
    /\ inserted = {}
    /\ calls = 0

InsertCall(v) ==
    /\ status = "live"
    /\ Store(insert(Cur, v))
    /\ last' = [op |-> "insert", arg |-> v]
    /\ inserted' = inserted \cup {v}
    /\ calls' = calls + 1

Insert(v) ==
    /\ calls < MaxCalls
    /\ InsertCall(v)

BulkArgs == UNION {[1..n -> 1..MaxBulkVal] : n \in 0..MaxBulk}

InsertAll(vs) ==
    /\ status = "live"
    /\ calls + Len(vs) <= MaxCalls
    /\ Store(insert_all(Cur, vs))
    /\ last' = [op |-> "insert_all", arg |-> vs]
    /\ inserted' = inserted \cup {vs[i] : i \in 1..Len(vs)}
    /\ calls' = calls + Len(vs)

\* contains that counts the lookup in size
Contains_counting(v) ==
    /\ status = "live"
    /\ last' = [op |-> "contains", arg |-> v, ret |-> contains(heap, root, v)]
    /\ size' = size + 1
    /\ UNCHANGED <<heap, root, status, inserted, calls>>

Contains(v) ==
    /\ status = "live"
    /\ last' = [op |-> "contains", arg |-> v, ret |-> contains(heap, root, v)]
    /\ UNCHANGED <<heap, root, size, status, inserted, calls>>

LenCall ==
    /\ status = "live"
    /\ last' = [op |-> "len", ret |-> len(Cur)]
    /\ UNCHANGED <<heap, root, size, status, inserted, calls>>

\* clear: root.take() hands out the old root, which is dropped
Clear ==
    /\ status = "live"
    /\ Store(clear(Cur))
    /\ last' = [op |-> "clear", taken |-> root]
    /\ inserted' = {}
    /\ calls' = 0

\* delete that reports "nothing removed" instead of failing
Delete_returning(v) ==
    /\ status = "live"
    /\ last' = [op |-> "delete", arg |-> v, ret |-> FALSE]
    /\ UNCHANGED <<heap, root, size, status, inserted, calls>>

\* delete: unimplemented!("not yet")
Delete(v) ==
    /\ status = "live"
    /\ status' = "panicked"
    /\ last' = [op |-> "delete", arg |-> v]
    /\ UNCHANGED <<heap, root, size, inserted, calls>>

\* Vec::from(tree): the tree is moved into the call and dropped by it
Export ==
    /\ status = "live"
    /\ status' = "consumed"
    /\ last' = [op |-> "from", ret |-> from(Cur)]
    /\ heap' = EmptyHeap
    /\ root' = Nil
    /\ UNCHANGED <<size, inserted, calls>>

Next ==
    \/ \E v \in Values : Insert(v)
    \/ \E vs \in BulkArgs : InsertAll(vs)
    \/ \E v \in Values : Contains(v)
    \/ LenCall
    \/ Clear
    \/ \E v \in Values : Delete(v)
    \/ Export

Spec == Init /\ [][Next]_vars

(***************************************************************************)
(* The program that inserts in strictly descending order (the order of a   *)
(* caller that feeds the tree from a reverse-sorted source).               *)
(***************************************************************************)
OrdValues == 1..MaxOrd

InsertDescending(v) ==
    /\ \A w \in inserted : v < w
    /\ InsertCall(v)

NextDescending == \E v \in OrdValues : InsertDescending(v)

SpecDescending == Init /\ [][NextDescending]_vars

(***************************************************************************)
(* Observations of a tree, used to state the properties                    *)
(***************************************************************************)
RECURSIVE Reach(_, _)
Reach(h, n) == IF n = Nil THEN {} ELSE {n} \cup Reach(h, h[n].left) \cup Reach(h, h[n].right)

RECURSIVE ValuesOf(_, _)
ValuesOf(h, n) ==
    IF n = Nil THEN {} ELSE {h[n].value} \cup ValuesOf(h, h[n].left) \cup ValuesOf(h, h[n].right)

\* the numbers of Black nodes met on the paths from n down to a nil link
RECURSIVE BlackCounts(_, _)
BlackCounts(h, n) ==
    IF n = Nil THEN {0}
    ELSE LET own == IF h[n].color = Black THEN 1 ELSE 0
         IN {c + own : c \in BlackCounts(h, h[n].left) \cup BlackCounts(h, h[n].right)}

Max(a, b) == IF a >= b THEN a ELSE b

\* the number of nodes on the longest path from n down to a nil link
RECURSIVE Height(_, _)
Height(h, n) == IF n = Nil THEN 0 ELSE 1 + Max(Height(h, h[n].left), Height(h, h[n].right))

\* ceil(log2(m)) for m >= 1: the least k with 2^k >= m
CeilLog2(m) == CHOOSE k \in 0..m : 2^k >= m /\ \A j \in 0..(k - 1) : 2^j < m

StrictlyAscending(s) == \A i \in 1..(Len(s) - 1) : s[i] < s[i + 1]

Range(s) == {s[i] : i \in 1..Len(s)}

Live == status = "live"

Nodes == Reach(heap, root)

(***************************************************************************)
(* The claims                                                              *)
(***************************************************************************)

\* C1 (left-leaning): in every tree a sequence of inserts leaves behind, no
\* node has a Red right child.
C1_NoRedRightChild ==
    Live => \A n \in Nodes : ~is_red(heap, heap[n].right)

\* C2 (black-balance): in every tree a sequence of inserts leaves behind,
\* all paths from the root to a nil link meet the same number of Black nodes.
C2_BlackBalance ==
    Live => Cardinality(BlackCounts(heap, root)) = 1

\* C3 (no double-red): in every tree a sequence of inserts leaves behind, no
\* Red node has a Red left child.
C3_NoRedRedLeft ==
    Live => \A n \in Nodes : ~(is_red(heap, n) /\ is_red(heap, heap[n].left))

\* C4 (root color): once an insert has completed (since new or the last
\* clear) the root exists and is Black.
C4_RootBlack ==
    (Live /\ calls > 0) => (root # Nil /\ heap[root].color = Black)

\* the third insert flipped the colors at the root (its two children are
\* Black, the flip left the root Red) and insert painted the root Black
C4_Witness ==
    /\ Live /\ last.op = "insert" /\ calls = 3
    /\ root # Nil /\ heap[root].color = Black
    /\ heap[root].left # Nil /\ heap[root].right # Nil
    /\ ~is_red(heap, heap[root].left) /\ ~is_red(heap, heap[root].right)

\* C5 (height bound): with n distinct values inserted, the longest path from
\* the root to a nil link has at most 2*ceil(log2(n+1)) nodes.
C5_HeightBound ==
    Live => Height(heap, root) <= 2 * CeilLog2(Cardinality(inserted) + 1)

\* C6 (ordering): at every node the left subtree holds smaller and the right
\* subtree greater values, and the sequence Vec::from returns is strictly
\* ascending.
C6_Ordering ==
    /\ Live => \A n \in Nodes :
                  /\ \A v \in ValuesOf(heap, heap[n].left) : v < heap[n].value
                  /\ \A v \in ValuesOf(heap, heap[n].right) : v > heap[n].value
    /\ last.op = "from" => StrictlyAscending(last.ret)

\* an export of four or more values after inserts that repeated a value
C6_Witness ==
    /\ last.op = "from" /\ Len(last.ret) >= 4 /\ calls > Len(last.ret)
    /\ StrictlyAscending(last.ret)

\* C7 (export content): the sequence Vec::from returns holds exactly the
\* values inserted since new or the last clear, each once.
C7_ExportContent ==
    last.op = "from" =>
        /\ Range(last.ret) = inserted
        /\ Len(last.ret) = Cardinality(inserted)

\* an export of all MaxVal values, after MaxCalls inserts
C7_Witness ==
    /\ last.op = "from" /\ Range(last.ret) = Values /\ Len(last.ret) = MaxVal
    /\ calls = MaxCalls

\* C8 (membership): contains(v) returns true exactly for the values inserted
\* since new or the last clear; on the empty tree it returns false.
C8_Membership ==
    /\ last.op = "contains" => (last.ret <=> last.arg \in inserted)
    /\ Live => \A v \in Values : contains(heap, root, v) <=> v \in inserted

\* contains found a value below the root of a tree of four or more nodes
C8_Witness ==
    /\ last.op = "contains" /\ last.ret = TRUE /\ last.arg \in inserted
    /\ Cardinality(Nodes) >= 4 /\ heap[root].value # last.arg

\* C9 (replacement): an insert of a value that is already present creates no
\* node and leaves the ordered export as it was.
C9_Replacement ==
    [][(last'.op = "insert" /\ status' = "live" /\ last'.arg \in inserted) =>
          /\ from(Cur)' = from(Cur)
          /\ Reach(heap', root') = Nodes
          /\ DOMAIN heap' = DOMAIN heap]_vars

\* after two inserts of the same value the tree holds one node
C9_Witness ==
    /\ Live /\ last.op = "insert" /\ calls >= 2 /\ inserted = {last.arg}
    /\ from(Cur) = <<last.arg>>

\* C10 (element count): size, which len() returns, is the number of insert
\* calls made since new or the last clear, replacements included.
C10_CountsCalls ==
    /\ status # "panicked" => size = calls
    /\ last.op = "len" => last.ret = calls

\* len() returns more than the number of values stored
C10_Witness ==
    /\ last.op = "len" /\ last.ret >= 3
    /\ last.ret > Cardinality(inserted) /\ Cardinality(Nodes) = Cardinality(inserted)

\* the tree after the calls insert(vs[1]), ..., insert(vs[k]) made one by one
RECURSIVE InsertsOneByOne(_, _, _)
InsertsOneByOne(t, vs, k) ==
    IF k = 0 THEN t ELSE insert(InsertsOneByOne(t, vs, k - 1), vs[k])

\* C11 (bulk equivalence): insert_all(vs) leaves the tree (nodes, links,
\* values, colors), the count and the ordered export that the calls
\* insert(vs[1]), ..., insert(vs[n]) leave when made one by one.
C11_BulkEquivalence ==
    [][(last'.op = "insert_all" /\ status' = "live") =>
          \A seq \in {InsertsOneByOne(Cur, last'.arg, Len(last'.arg))} :
             /\ heap' = seq.heap /\ root' = seq.root
             /\ size' = seq.size
             /\ len(Cur)' = len(seq)
             /\ from(Cur)' = from(seq)]_vars

\* insert_all of two different values into a tree of three or more nodes
C11_Witness ==
    /\ Live /\ last.op = "insert_all" /\ Len(last.arg) = 2
    /\ last.arg[1] # last.arg[2]
    /\ Cardinality(Nodes) >= 3 /\ calls >= 5

\* C12 (clear): clear leaves no root and no reachable node, len() = 0, an
\* empty ordered export, and contains(v) = FALSE for every v.
C12_ClearEmpties ==
    last.op = "clear" =>
        /\ Live
        /\ root = Nil /\ Nodes = {} /\ DOMAIN heap = {}
        /\ len(Cur) = 0
        /\ from(Cur) = <<>>
        /\ \A v \in Values : ~contains(heap, root, v)

\* clear dropped a tree that had a root
C12_Witness ==
    last.op = "clear" /\ last.taken # Nil /\ root = Nil /\ size = 0

(***************************************************************************)
(* The repair passes of one insert_help(h, node, val): the heap and the    *)
(* node each pass starts from (the state at line 70, the link of lines     *)
(* 64/66 written back), and the results of its three steps.                *)
(***************************************************************************)
RECURSIVE RepairInputs(_, _, _)
RepairInputs(h, node, val) ==
    IF node = Nil THEN {}
    ELSE LET way == descend(val, h[node].value)
             child == IF way = "left" THEN h[node].left ELSE h[node].right
             sub == insert_help(h, child, val, {})
         IN IF way = "replace"
            THEN {[h |-> [h EXCEPT ![node].value = val], cnode |-> node]}
            ELSE {[h |-> IF way = "left" THEN [sub.h EXCEPT ![node].left = sub.head]
                         ELSE [sub.h EXCEPT ![node].right = sub.head],
                   cnode |-> node]}
                 \cup RepairInputs(h, child, val)

\* the repair passes of all the inserts that can be made in this state
NextRepairs == UNION {RepairInputs(heap, root, v) : v \in Values}

LeftOf(x) == x.h[x.cnode].left
RightOf(x) == x.h[x.cnode].right
Step1Of(x) == repair_step1(x.h, x.cnode, LeftOf(x), RightOf(x), {})
Step2Of(x) == repair_step2(Step1Of(x), LeftOf(x), {})
Step3Of(x) == repair_step3(Step2Of(x), LeftOf(x), RightOf(x), {})

RotatesLeft(x) == rotates_left(x.h, LeftOf(x), RightOf(x))
RotatesRight(x) == rotates_right(Step1Of(x).h, LeftOf(x))
Flips(x) == flips(Step2Of(x).h, LeftOf(x), RightOf(x))

\* C13 (insert is total): no insert or insert_all ever fails (only delete
\* does), and in every reachable state every insert would run to completion:
\* each rotation finds the child it unwraps, the flip finds both children,
\* the root exists when it is painted, and no RefCell is borrowed twice.
C13_InsertTotal ==
    /\ status = "panicked" => last.op = "delete"
    /\ Live => \A v \in Values :
                  /\ insert(Cur, v).ok
                  /\ insert(Cur, v).root # Nil

\* a state whose next inserts rotate left, rotate right and flip, and an
\* insert has just completed in it
C13_Witness ==
    /\ Live /\ last.op = "insert"
    /\ \E x \in NextRepairs : RotatesLeft(x)
    /\ \E x \in NextRepairs : RotatesRight(x)
    /\ \E x \in NextRepairs : Flips(x)
    /\ \A v \in Values : insert(Cur, v).ok

\* C14 (delete is unsupported): every delete call fails, returns no boolean
\* and leaves the root, the nodes and the count as they were.
C14_DeleteFails ==
    [][last'.op = "delete" =>
          /\ status' = "panicked"
          /\ "ret" \notin DOMAIN last'
          /\ UNCHANGED <<heap, root, size>>]_vars

\* delete was called on a tree of three or more nodes, which are still there
C14_Witness ==
    /\ last.op = "delete" /\ status = "panicked"
    /\ Cardinality(Nodes) >= 3 /\ last.arg \in inserted

(***************************************************************************)
(* The insertion procedure as specified: each repair step tests the        *)
(* children of the node that heads the subtree at that moment, and the     *)
(* flip sets the head Red and its two children Black.                      *)
(***************************************************************************)
SpecRepair(h, cnode) ==
    LET r1 == IF is_red(h, h[cnode].right) /\ ~is_red(h, h[cnode].left)
              THEN rotate_left(h, cnode, {}) ELSE Res(h, cnode, TRUE)
        l1 == r1.h[r1.head].left
        r2 == IF is_red(r1.h, l1) /\ is_red(r1.h, r1.h[l1].left)
              THEN rotate_right(r1.h, r1.head, {}) ELSE r1
        l2 == r2.h[r2.head].left
        g2 == r2.h[r2.head].right
    IN IF is_red(r2.h, l2) /\ is_red(r2.h, g2)
       THEN Res([r2.h EXCEPT ![r2.head].color = Red,
                             ![l2].color = Black,
                             ![g2].color = Black], r2.head, TRUE)
       ELSE r2

RECURSIVE SpecInsertHelp(_, _, _)
SpecInsertHelp(h, node, val) ==
    IF node = Nil THEN
        LET id == NewId(h, val)
        IN Res([n \in DOMAIN h \cup {id} |->
                   IF n = id THEN with_color(val, Red) ELSE h[n]], id, TRUE)
    ELSE IF val < h[node].value THEN
        LET sub == SpecInsertHelp(h, h[node].left, val)
        IN SpecRepair([sub.h EXCEPT ![node].left = sub.head], node)
    ELSE IF val > h[node].value THEN
        LET sub == SpecInsertHelp(h, h[node].right, val)
        IN SpecRepair([sub.h EXCEPT ![node].right = sub.head], node)
    ELSE SpecRepair([h EXCEPT ![node].value = val], node)

SpecInsert(t, val) ==
    LET r == SpecInsertHelp(t.heap, t.root, val)
    IN Tree([r.h EXCEPT ![r.head].color = Black], r.head, t.size + 1, TRUE)

\* C15 (repair procedure equivalence): every insert leaves the tree (nodes,
\* links, values, colors) that the specified insertion procedure leaves when
\* it is run on the same tree with the same value.
C15_RepairAsSpecified ==
    [][(last'.op = "insert" /\ status' = "live") =>
          LET want == SpecInsert(Cur, last'.arg)
          IN heap' = want.heap /\ root' = want.root]_vars

\* C16 (color flip result): whenever the third repair step is applied in a
\* pass of an insert, the node that heads the subtree is Red and both of its
\* children are Black right after the step.
C16_FlipResult ==
    Live => \A x \in NextRepairs :
               Flips(x) =>
                   LET r == Step3Of(x)
                   IN /\ r.h[r.head].color = Red
                      /\ ~is_red(r.h, r.h[r.head].left)
                      /\ ~is_red(r.h, r.h[r.head].right)

\* what a rotation at n, started in heap h0 and ended in r with head `up`
\* (the child of n that rises), may change
RotationFrame(h0, n, up, r) ==
    /\ r.ok /\ r.head = up /\ up # Nil /\ up # n
    /\ from_recursive(r.h, r.head, <<>>) = from_recursive(h0, n, <<>>)
    /\ DOMAIN r.h = DOMAIN h0
    /\ r.h[up].color = h0[n].color
    /\ r.h[n].color = Red
    /\ r.h[n].value = h0[n].value /\ r.h[up].value = h0[up].value
    /\ \A m \in DOMAIN h0 \ {n, up} : r.h[m] = h0[m]

\* C17 (rotation frame): every rotate_left and rotate_right an insert makes
\* keeps the in-order sequence of the subtree, gives the new head the old
\* head's color and paints the old head Red, and leaves every other node's
\* value, color and links as they were.
C17_RotationFrame ==
    Live => \A x \in NextRepairs :
               /\ RotatesLeft(x) =>
                     /\ RotationFrame(x.h, x.cnode, RightOf(x), Step1Of(x))
                     /\ Step1Of(x).h[x.cnode].left = x.h[x.cnode].left
                     /\ Step1Of(x).h[RightOf(x)].right = x.h[RightOf(x)].right
               /\ RotatesRight(x) =>
                     LET r1 == Step1Of(x)
                         up == r1.h[r1.head].left
                     IN /\ RotationFrame(r1.h, r1.head, up, Step2Of(x))
                        /\ Step2Of(x).h[r1.head].right = r1.h[r1.head].right
                        /\ Step2Of(x).h[up].left = r1.h[up].left

\* a state whose next inserts make a left rotation and a right rotation that
\* each move a non-empty middle subtree from the rising node to the old head
C17_Witness ==
    /\ Live
    /\ \E x \in NextRepairs : RotatesLeft(x) /\ x.h[RightOf(x)].left # Nil
    /\ \E x \in NextRepairs :
          /\ RotatesRight(x)
          /\ LET r1 == Step1Of(x) IN r1.h[r1.h[r1.head].left].right # Nil

\* the nodes that can be reached from the nodes of S along child links
RECURSIVE Closure(_, _)
Closure(h, S) ==
    LET T == S \cup (({h[n].left : n \in S} \cup {h[n].right : n \in S}) \ {Nil})
    IN IF T = S THEN S ELSE Closure(h, T)

Reachable == IF root = Nil THEN {} ELSE Closure(heap, {root})

\* the links of the heap that point at n
ParentLinks(n) ==
    {<<p, "left">> : p \in {q \in DOMAIN heap : heap[q].left = n}}
    \cup {<<p, "right">> : p \in {q \in DOMAIN heap : heap[q].right = n}}

\* C18 (exclusive ownership): after every completed call the links form a
\* tree: no link points at the root, exactly one link points at every other
\* reachable node (so no node has two parents or lies on a cycle), and the
\* reachable nodes are as many as the distinct values inserted since new or
\* the last clear.
C18_LinksFormATree ==
    Live =>
        /\ Reachable \subseteq DOMAIN heap
        /\ root # Nil => ParentLinks(root) = {}
        /\ \A n \in Reachable \ {root} : Cardinality(ParentLinks(n)) = 1
        /\ Cardinality(Reachable) = Cardinality(inserted)

\* a tree of MaxVal nodes left by an insert_all, each node but the root with
\* its one parent
C18_Witness ==
    /\ Live /\ last.op = "insert_all" /\ Len(last.arg) > 0
    /\ Cardinality(Reachable) = MaxVal
    /\ \A n \in Reachable \ {root} : Cardinality(ParentLinks(n)) = 1

\* C19 (contains and len are read-only): a call of contains or len leaves
\* the root, every node's value, color and links, and the count as they were.
C19_ReadOnly ==
    [][(last'.op = "contains" \/ last'.op = "len") =>
          /\ heap' = heap /\ root' = root /\ size' = size
          /\ status' = status]_vars

\* contains or len was called on a tree of three or more nodes
C19_Witness ==
    /\ last.op \in {"contains", "len"} /\ Live
    /\ Cardinality(Nodes) >= 3 /\ size >= 3

\* C20 (clear resets to the initial state): after clear the tree is the tree
\* new() returns, so every sequence of inserts leaves the same tree, len(),
\* contains results and ordered export as it leaves on a new tree.
C20_ClearIsNew ==
    last.op = "clear" =>
        /\ Cur = new
        /\ \A vs \in BulkArgs \cup {<<v, w>> : v \in Values, w \in Values} :
              LET a == InsertsOneByOne(Cur, vs, Len(vs))
                  b == InsertsOneByOne(new, vs, Len(vs))
              IN /\ a = b
                 /\ len(a) = len(b)
                 /\ from(a) = from(b)
                 /\ \A v \in Values : contains(a.heap, a.root, v) = contains(b.heap, b.root, v)

\* clear dropped a tree that had a root, and an insert into the cleared tree
\* gives the one-node tree it gives on a new tree
C20_Witness ==
    /\ last.op = "clear" /\ last.taken # Nil /\ Live
    /\ \E v \in Values : insert(Cur, v) = insert(new, v) /\ insert(Cur, v).size = 1

====
